---- MODULE Spec2Model ----
(***************************************************************************)
(* Game-state update / collision loop of js/app.js: Enemy, Player, Game.   *)
(* Positions are pixels, speeds pixels per second, dt whole seconds.       *)
(***************************************************************************)
EXTENDS Integers, Sequences, FiniteSets, TLC

VARIABLES game, phase, last

vars == <<game, phase, last>>

\* ---------------------------------------------------------------- bounds
\* number of grid cells the player may be moved outside the level between
\* two frames (key events are unbounded in the program)
MaxOut == 1
\* largest time delta of a frame, in seconds
MaxDt == 1
\* how far around the touching positions the collision check is sampled
Slack == 1

Dts == 0..MaxDt

\* ------------------------------------------------------------- constants
EnemyWidth == 101
EnemyHeight == 73
PlayerWidth == 71
PlayerHeight == 73
\* ctx.canvas.width: five columns of 101 pixels
CanvasWidth == 505
NumEnemies == 3

Keys == {"left", "up", "right", "down", "enter", "undefined"}

\* the (lane, speed) pairs of values of Math.floor(Math.random() * 3) and
\* Math.floor(Math.random() * 300) the model draws in one Enemy reset
Draw == {<<0, 199>>, <<1, 299>>, <<2, 150>>}
NoDraw == <<0, 199>>

\* ----------------------------------------------------------------- Enemy
EnemyReset(d) ==
  [x |-> -101, y |-> d[1] * 83 + 134, speed |-> d[2] + 100]

EnemyRecycles(e, dt) == e.x + e.speed * dt > CanvasWidth

\* the enemy stops at the edge instead of starting over
EnemyUpdateStops(e, dt, d) ==
  IF EnemyRecycles(e, dt) THEN e
  ELSE [e EXCEPT !.x = e.x + e.speed * dt]

\* an enemy that reaches the edge exactly starts over too
EnemyUpdateAtEdge(e, dt, d) ==
  IF e.x + e.speed * dt >= CanvasWidth THEN EnemyReset(d)
  ELSE [e EXCEPT !.x = e.x + e.speed * dt]

\* the movement not multiplied by dt
EnemyUpdatePerFrame(e, dt, d) ==
  IF e.x + e.speed > CanvasWidth THEN EnemyReset(d)
  ELSE [e EXCEPT !.x = e.x + e.speed]

\* the lane drawn anew at every update
EnemyUpdateNewLane(e, dt, d) ==
  IF EnemyRecycles(e, dt) THEN EnemyReset(d)
  ELSE [e EXCEPT !.x = e.x + e.speed * dt, !.y = d[1] * 83 + 134]

EnemyUpdate(e, dt, d) ==
  IF EnemyRecycles(e, dt) THEN EnemyReset(d)
  ELSE [e EXCEPT !.x = e.x + e.speed * dt]

\* ---------------------------------------------------------------- Player
PlayerReset == [x |-> 217, y |-> 466, winner |-> FALSE]

\* clamped to the canvas instead of to the outer columns
PlayerUpdateToEdge(p) ==
  IF p.x < 15 THEN [p EXCEPT !.x = 0]
  ELSE IF p.x > 419 THEN [p EXCEPT !.x = CanvasWidth - PlayerWidth]
  ELSE IF p.y > 466 THEN [p EXCEPT !.y = 466]
  ELSE p

PlayerUpdate(p) ==
  IF p.x < 15 THEN [p EXCEPT !.x = 15]
  ELSE IF p.x > 419 THEN [p EXCEPT !.x = 419]
  ELSE IF p.y > 466 THEN [p EXCEPT !.y = 466]
  ELSE p

\* "up" and "down" exchanged
PlayerHandleInputUpDown(p, key) ==
  CASE key = "left"  -> [p EXCEPT !.x = p.x - 101]
    [] key = "up"    -> [p EXCEPT !.y = p.y + 83]
    [] key = "right" -> [p EXCEPT !.x = p.x + 101]
    [] key = "down"  -> [p EXCEPT !.y = p.y - 83]
    [] OTHER         -> p

\* the bounds checked when the key arrives
PlayerHandleInputClamped(p, key) ==
  CASE key = "left"  -> [p EXCEPT !.x = IF p.x - 101 < 15 THEN 15
                                         ELSE p.x - 101]
    [] key = "up"    -> [p EXCEPT !.y = p.y - 83]
    [] key = "right" -> [p EXCEPT !.x = IF p.x + 101 > 419 THEN 419
                                         ELSE p.x + 101]
    [] key = "down"  -> [p EXCEPT !.y = IF p.y + 83 > 466 THEN 466
                                         ELSE p.y + 83]
    [] OTHER         -> p

PlayerHandleInput(p, key) ==
  CASE key = "left"  -> [p EXCEPT !.x = p.x - 101]
    [] key = "up"    -> [p EXCEPT !.y = p.y - 83]
    [] key = "right" -> [p EXCEPT !.x = p.x + 101]
    [] key = "down"  -> [p EXCEPT !.y = p.y + 83]
    [] OTHER         -> p

\* the last comparison left out
CollidesWithNoTop(p, other) ==
  /\ p.x < other.x + EnemyWidth
  /\ p.x + PlayerWidth > other.x
  /\ p.y < other.y + EnemyHeight

\* touching boxes count as colliding
CollidesWithTouching(p, other) ==
  /\ p.x <= other.x + EnemyWidth
  /\ p.x + PlayerWidth >= other.x
  /\ p.y <= other.y + EnemyHeight
  /\ PlayerHeight + p.y >= other.y

CollidesWith(p, other) ==
  /\ p.x < other.x + EnemyWidth
  /\ p.x + PlayerWidth > other.x
  /\ p.y < other.y + EnemyHeight
  /\ PlayerHeight + p.y > other.y

CollidesWithAnEnemy(p, es) ==
  \E i \in DOMAIN es : CollidesWith(p, es[i])

\* ------------------------------------------------------------------ Game
\* a game value g is [enemies, player, ended]; r gives the draws of the
\* three enemies' resets
\* this.ended = false left out
GameResetKeepsEnded(g, r) ==
  [enemies |-> [i \in 1..NumEnemies |-> EnemyReset(r[i])],
   player  |-> PlayerReset,
   ended   |-> g.ended]

GameReset(g, r) ==
  [enemies |-> [i \in 1..NumEnemies |-> EnemyReset(r[i])],
   player  |-> PlayerReset,
   ended   |-> FALSE]

\* new Game(): every entity's constructor calls its reset
NewGame(r) ==
  [enemies |-> [i \in 1..NumEnemies |-> EnemyReset(r[i])],
   player  |-> PlayerReset,
   ended   |-> FALSE]

\* the enemies after enemies.forEach(enemy.update(deltaTime)); d gives the
\* draws of the enemies that recycle
Advanced(g, dt, d) ==
  [i \in 1..NumEnemies |-> EnemyUpdate(g.enemies[i], dt, d[i])]

\* the collision is checked before this.player.update
UpdateEntitiesCheckFirst(g, dt, d, r) ==
  LET adv == [g EXCEPT !.enemies = Advanced(g, dt, d)]
  IN  IF CollidesWithAnEnemy(adv.player, adv.enemies)
      THEN GameReset(adv, r)
      ELSE [adv EXCEPT !.player = PlayerUpdate(g.player)]

UpdateEntities(g, dt, d, r) ==
  LET moved == [g EXCEPT !.enemies = Advanced(g, dt, d),
                         !.player  = PlayerUpdate(g.player)]
  IN  IF CollidesWithAnEnemy(moved.player, moved.enemies)
      THEN GameReset(moved, r)
      ELSE moved

\* the goal row tested one row too high
RenderEntitiesStrict(g) ==
  IF g.player.y < 51 THEN [g EXCEPT !.ended = TRUE] ELSE g

RenderEntities(g) ==
  IF g.player.y < 134 THEN [g EXCEPT !.ended = TRUE] ELSE g

\* the test of the key left out: any key restarts a won game
GameHandleInputAnyKey(g, key, r) ==
  IF g.ended
  THEN GameReset(g, r)
  ELSE [g EXCEPT !.player = PlayerHandleInput(g.player, key)]

\* the test of this.ended left out: keys always reach the player
GameHandleInputUngated(g, key, r) ==
  IF g.ended /\ key = "enter"
  THEN GameReset(g, r)
  ELSE [g EXCEPT !.player = PlayerHandleInput(g.player, key)]

GameHandleInput(g, key, r) ==
  IF g.ended
  THEN IF key = "enter" THEN GameReset(g, r) ELSE g
  ELSE [g EXCEPT !.player = PlayerHandleInput(g.player, key)]

\* ----------------------------------------------------------- the machine
Draws3 == [1..NumEnemies -> Draw]
NoDraws == [i \in 1..NumEnemies |-> NoDraw]

DrawsFor(e, dt) == IF EnemyRecycles(e, dt) THEN Draw ELSE {NoDraw}

\* the positions the model lets the keys move the player to
InReach(p) ==
  /\ p.x >= 15 - 101 * MaxOut
  /\ p.x <= 419 + 101 * MaxOut
  /\ p.y >= 51 - 83 * MaxOut
  /\ p.y <= 466 + 83 * MaxOut

AtSpawn(g) == g.player.x = 217 /\ g.player.y = 466 /\ ~g.ended

\* last records the operation that led to the state: op, the won flag
\* before it (was), whether updateEntities found a collision (hit), whether
\* the player as the keys left it overlapped an advanced enemy (hitRaw),
\* whether the player entered the update with y < 134 (goal), the
\* checks the frame has evaluated so far (checks) and the run of "up" keys
\* (ups).

\* number of "up" keys in a row since the player stood at (217,466), -1 if
\* some other operation came in between
UpsAfter(key) ==
  LET start == IF AtSpawn(game) THEN 0
               ELSE IF last.op = "key" THEN last.ups ELSE -1
  IN  IF key = "up" /\ ~game.ended /\ start >= 0 THEN start + 1 ELSE -1

\* var game = new Game()
Init ==
  /\ \E r \in Draws3 : game = NewGame(r)
  /\ phase = "update"
  /\ last = [op |-> "init", was |-> FALSE, hit |-> FALSE, hitRaw |-> FALSE,
             goal |-> FALSE, ups |-> 0, checks |-> <<>>]

\* keydown listener: game.handleInput(allowedKeys[e.keyCode]), between frames
HandleInput(key) ==
  /\ phase = "update"
  /\ \E r \in IF game.ended /\ key = "enter" THEN Draws3 ELSE {NoDraws} :
       game' = GameHandleInput(game, key, r)
  /\ InReach(game'.player)
  /\ phase' = phase
  /\ last' = [op |-> "key", was |-> game.ended, hit |-> FALSE,
              hitRaw |-> FALSE, goal |-> FALSE, ups |-> UpsAfter(key),
              checks |-> <<>>]

\* first half of a frame: game.updateEntities(dt)
Update(dt) ==
  /\ phase = "update"
  /\ phase' = "render"
  /\ \E d1 \in DrawsFor(game.enemies[1], dt),
        d2 \in DrawsFor(game.enemies[2], dt),
        d3 \in DrawsFor(game.enemies[3], dt) :
       LET d   == <<d1, d2, d3>>
           adv == Advanced(game, dt, d)
           hit == CollidesWithAnEnemy(PlayerUpdate(game.player), adv)
       IN  /\ \E r \in IF hit THEN Draws3 ELSE {NoDraws} :
                game' = UpdateEntities(game, dt, d, r)
           /\ last' = [op |-> "update", was |-> game.ended, hit |-> hit,
                       hitRaw |-> CollidesWithAnEnemy(game.player, adv),
                       goal |-> game.player.y < 134,
                       ups |-> IF last.op = "key" THEN last.ups ELSE -1,
                       checks |-> <<"collision">>]

\* second half of a frame: game.renderEntities()
Render ==
  /\ phase = "render"
  /\ game' = RenderEntities(game)
  /\ phase' = "update"
  /\ last' = [last EXCEPT !.op = "render",
                           !.checks = Append(last.checks, "win")]

Next ==
  \/ \E key \in Keys : HandleInput(key)
  \/ \E dt \in Dts : Update(dt)
  \/ Render

Spec == Init /\ [][Next]_vars

TypeOK ==
  /\ phase \in {"update", "render"}
  /\ game.ended \in BOOLEAN
  /\ game.player.winner = FALSE

\* ------------------------------------------------------------ properties
Lanes == {134, 217, 300}

InBounds(p) == p.x >= 15 /\ p.x <= 419 /\ p.y <= 466

SpawnState(g) ==
  /\ g.player.x = 217 /\ g.player.y = 466
  /\ ~g.ended
  /\ \A i \in 1..NumEnemies :
       g.enemies[i].x = -101 /\ g.enemies[i].y \in Lanes

XOverlap(p, e) == p.x < e.x + EnemyWidth /\ p.x + PlayerWidth > e.x

\* the step is an Update step, a HandleInput(key) step
UpdateStep == last'.op = "update"

KeyStep(key) == last'.op = "key" /\ HandleInput(key)

OtherKeyStep == \E key \in Keys \ {"enter"} : KeyStep(key)

\* C1: an update that runs with won = false and finds no collision leaves
\* the player with x in [15,419] and y <= 466.
C1_BoundsClamping ==
  (phase = "render" /\ ~last.was /\ ~last.hit) => InBounds(game.player)

\* C2 (as claimed): the win check of a frame is evaluated before its
\* collision check, and a frame whose update leaves the player at y < 134 on
\* an obstacle ends won and without reset.
C2_WinCheckedFirst ==
  /\ last.checks # <<>> => Head(last.checks) = "win"
  /\ (last.op = "render" /\ last.goal /\ (last.hit \/ last.hitRaw))
       => game.ended /\ game.player.y < 134

\* C2 (amended): the collision check of a frame (updateEntities) is
\* evaluated before its win check (renderEntities); an update that leaves
\* the player at y < 134 finds no collision and resets nothing, and the
\* render that follows sets won.
C2_WinAfterCollisionCheck ==
  [][/\ (UpdateStep /\ PlayerUpdate(game.player).y < 134)
          => /\ ~last'.hit
             /\ game'.player = PlayerUpdate(game.player)
             /\ game'.ended = game.ended
     /\ (Render /\ game.player.y < 134) => game'.ended
     /\ last'.checks \in {<<>>, <<"collision">>, <<"collision", "win">>}
     /\ Render => last'.checks = <<"collision", "win">>]_vars

C2_Witness ==
  /\ last.op = "render" /\ ~last.was /\ game.ended
  /\ game.player.y < 134
  /\ \E i \in 1..NumEnemies : XOverlap(game.player, game.enemies[i])

\* C3: every enemy's speed is an integer in [100,299].
C3_SpeedRange ==
  \A i \in 1..NumEnemies : game.enemies[i].speed \in 100..299

\* C4 (as claimed): an update in which the player, at y >= 134 and at the
\* position the keys left it (before clamping), overlaps an advanced enemy
\* resets the whole game.
C4_CollisionBeforeClamp ==
  [][(UpdateStep /\ game.player.y >= 134 /\ last'.hitRaw)
       => SpawnState(game')]_vars

\* C4 (amended): an update advances every enemy and clamps the player
\* first; if the clamped player at y >= 134 then overlaps an advanced enemy
\* the whole game is reset in that update, and otherwise it is not.
C4_CollisionAfterClamp ==
  [][UpdateStep =>
       /\ (game.player.y >= 134 /\ last'.hit) => SpawnState(game')
       /\ ~last'.hit => game'.player = PlayerUpdate(game.player)]_vars

C4_Witness ==
  /\ last.op = "update" /\ last.hit /\ ~last.hitRaw
  /\ SpawnState(game)

\* C5: five "up" keys from (217,466) with no frame in between move y
\* through 383, 300, 217, 134 to 51, and the next frame sets won whatever
\* the enemies are and whatever dt is.
C5_EndToEndWin ==
  /\ (last.op = "key" /\ last.ups \in 1..5)
       => game.player.x = 217 /\ game.player.y = 466 - 83 * last.ups
  /\ (last.op = "render" /\ last.ups = 5)
       => game.ended /\ ~last.hit /\ game.player.y = 51

C5_Witness ==
  /\ last.op = "render" /\ last.ups = 5 /\ game.ended
  /\ \E i \in 1..NumEnemies :
       game.enemies[i].y = 134 /\ XOverlap(game.player, game.enemies[i])

\* C6: when won, the enter key puts the player at (217,466) with won =
\* false, and every other key leaves won = true.
C6_RestartFromWon ==
  [][game.ended =>
       /\ KeyStep("enter")
            => /\ game'.player.x = 217 /\ game'.player.y = 466
               /\ ~game'.ended
       /\ OtherKeyStep => game'.ended]_vars

C6_Witness ==
  /\ last.op = "key" /\ last.was /\ ~game.ended
  /\ game.player.x = 217 /\ game.player.y = 466

\* C7: when won, every key but enter leaves the player, the won flag and
\* every enemy unchanged.
C7_InputGating ==
  [][(game.ended /\ OtherKeyStep) => game' = game]_vars

C7_Witness ==
  last.op = "key" /\ last.was /\ game.ended

\* C8: once won, won stays true across every frame and every key but
\* enter, and no update in the won state finds a collision.
C8_WinSticky ==
  [][game.ended =>
       /\ ~KeyStep("enter") => game'.ended
       /\ UpdateStep => ~last'.hit]_vars

C8_Witness ==
  /\ last.op = "render" /\ last.was /\ game.ended
  /\ \E i \in 1..NumEnemies : XOverlap(game.player, game.enemies[i])
  /\ \E i \in 1..NumEnemies : game.enemies[i].x = -101

\* C9: while won, no frame and no key but the enter key that restarts the
\* game changes the player's x or y.
C9_WonFreezes ==
  [][(game.ended /\ ~KeyStep("enter"))
       => /\ game'.player.x = game.player.x
          /\ game'.player.y = game.player.y]_vars

C9_Witness ==
  /\ last.op = "render" /\ last.was /\ game.ended
  /\ game.player.x = 419

\* ------------------------------------------- the collision check alone
\* Player.prototype.collidesWith / collidesWithAnEnemy applied to boxes
\* placed around the positions where they touch
Near(c, lo, hi) ==
  {c - lo + o : o \in -Slack..Slack} \cup {c + hi + o : o \in -Slack..Slack}
    \cup {c}

FarEnemy == [x |-> -101, y |-> 134, speed |-> 100]

InitCollide ==
  /\ \E x1 \in Near(217, EnemyWidth, PlayerWidth),
        y1 \in Near(300, EnemyHeight, PlayerHeight),
        e2 \in {FarEnemy, [x |-> 217, y |-> 300, speed |-> 100]},
        e3 \in {FarEnemy, [x |-> 287, y |-> 372, speed |-> 100]} :
       game = [enemies |-> <<[x |-> x1, y |-> y1, speed |-> 100], e2, e3>>,
               player  |-> [x |-> 217, y |-> 300, winner |-> FALSE],
               ended   |-> FALSE]
  /\ phase = "collide"
  /\ last = [op |-> "init", hit |-> FALSE,
             each |-> [i \in 1..NumEnemies |-> FALSE]]

Collide ==
  /\ phase = "collide"
  /\ last' = [op |-> "collide",
              hit |-> CollidesWithAnEnemy(game.player, game.enemies),
              each |-> [i \in 1..NumEnemies |->
                          CollidesWith(game.player, game.enemies[i])]]
  /\ phase' = "done"
  /\ game' = game

NextCollide == Collide

SpecCollide == InitCollide /\ [][NextCollide]_vars

\* the intervals from a1 to a2 and from b1 to b2 have a unit cell in common
ShareCell(a1, a2, b1, b2) == \E k \in a1..(a2 - 1) : b1 <= k /\ k < b2

Flush(p, e) ==
  \/ p.x + PlayerWidth = e.x
  \/ e.x + EnemyWidth = p.x
  \/ p.y + PlayerHeight = e.y
  \/ e.y + EnemyHeight = p.y

OverlapByOne(p, e) ==
  /\ p.x + PlayerWidth = e.x + 1 \/ e.x + EnemyWidth = p.x + 1
  /\ p.y + PlayerHeight = e.y + 1 \/ e.y + EnemyHeight = p.y + 1

\* C10: collidesWith holds exactly when the two boxes share area on both
\* axes: boxes flush on some edge do not collide, boxes overlapping by one
\* unit on both axes do, and collidesWithAnEnemy holds exactly when
\* collidesWith holds for some enemy.
C10_CollisionRule ==
  last.op = "collide" =>
    /\ \A i \in 1..NumEnemies :
         LET p == game.player
             e == game.enemies[i]
         IN  /\ last.each[i] =
                  (/\ ShareCell(p.x, p.x + PlayerWidth, e.x, e.x + EnemyWidth)
                   /\ ShareCell(p.y, p.y + PlayerHeight, e.y,
                                e.y + EnemyHeight))
             /\ Flush(p, e) => ~last.each[i]
             /\ OverlapByOne(p, e) => last.each[i]
    /\ last.hit = (\E i \in 1..NumEnemies : last.each[i])

C10_Witness ==
  /\ last.op = "collide"
  /\ game.enemies[1].x = game.player.x + PlayerWidth
  /\ game.enemies[1].y = game.player.y
  /\ ~last.each[1]
  /\ last.each[3] /\ OverlapByOne(game.player, game.enemies[3])
  /\ last.hit

\* ---------------------------------------------------- more properties
DX(key) == IF key = "left" THEN -101 ELSE IF key = "right" THEN 101 ELSE 0

DY(key) == IF key = "up" THEN -83 ELSE IF key = "down" THEN 83 ELSE 0

\* C12: while not won, left/right move x by -101/+101 and up/down move y
\* by -83/+83 with no bounds check, every other key moves nothing, and no
\* key changes an enemy or the won flag.
C12_MovementInput ==
  [][~game.ended =>
       \A key \in Keys :
         KeyStep(key) =>
           /\ game'.player.x = game.player.x + DX(key)
           /\ game'.player.y = game.player.y + DY(key)
           /\ game'.enemies = game.enemies
           /\ game'.ended = game.ended]_vars

C12_Witness ==
  /\ last.op = "key" /\ ~last.was /\ ~game.ended
  /\ game.player.x = 419 + 101
  /\ game.player.y = 466 + 83

\* C15: an enemy's y and speed change only when the enemy is reset: an
\* update that keeps it short of the right edge only moves its x, and keys
\* in play and renders leave the enemies alone.
C15_LaneAndSpeedFixed ==
  [][/\ (last'.op = "key" /\ ~game.ended) => game'.enemies = game.enemies
     /\ Render => game'.enemies = game.enemies
     /\ (UpdateStep /\ ~last'.hit) =>
          \E dt \in Dts : \A i \in 1..NumEnemies :
            IF EnemyRecycles(game.enemies[i], dt)
            THEN game'.enemies[i].x = -101
            ELSE game'.enemies[i] =
                   [game.enemies[i] EXCEPT
                      !.x = game.enemies[i].x + game.enemies[i].speed * dt]
     /\ \A i \in 1..NumEnemies :
          (\/ game'.enemies[i].y # game.enemies[i].y
           \/ game'.enemies[i].speed # game.enemies[i].speed)
            => /\ game'.enemies[i].x = -101
               /\ UpdateStep \/ (game.ended /\ KeyStep("enter"))]_vars

C15_Witness ==
  /\ last.op = "update" /\ ~last.hit
  /\ \E i \in 1..NumEnemies : game.enemies[i].x > 0
  /\ \E i \in 1..NumEnemies : game.enemies[i].x = -101

\* C16: an update finds a collision only when the player's y is one of the
\* lanes 134, 217, 300; a player in any other row overlaps no enemy.
C16_CollisionOnlyInLanes ==
  [][/\ (UpdateStep /\ last'.hit) => game.player.y \in Lanes
     /\ (UpdateStep /\ game.player.y \notin Lanes)
          => ~last'.hit /\ ~last'.hitRaw
     /\ game'.player.y \notin Lanes
          => ~CollidesWithAnEnemy(game'.player, game'.enemies)]_vars

C16_Witness ==
  /\ last.op = "render" /\ ~last.hit
  /\ game.player.y = 383
  /\ \E i \in 1..NumEnemies :
       game.enemies[i].y = 300 /\ XOverlap(game.player, game.enemies[i])

\* C17: after every frame won is true exactly when the player's y < 134,
\* and in every state won implies y < 134.
C17_WonIffGoalRow ==
  /\ last.op = "render" => (game.ended <=> game.player.y < 134)
  /\ game.ended => game.player.y < 134

C17_Witness ==
  /\ last.op = "key" /\ game.ended
  /\ game.player.y = 51 - 83

\* C18: the player's y is always 466 - 83 * k for an integer k, and after
\* every frame its x is one of 15, 116, 217, 318, 419.
C18_OnGrid ==
  /\ (466 - game.player.y) % 83 = 0
  /\ last.op = "render" => game.player.x \in {15, 116, 217, 318, 419}

C18_Witness ==
  /\ last.op = "render"
  /\ game.player.x = 15
  /\ game.player.y = 466 + 83

\* --------------------------------------------- the enemies' update alone
\* enemies.forEach(enemy.update(deltaTime)) applied again and again to
\* enemies whose speeds bring them exactly onto the right edge
EdgeDraw == {<<0, 1>>, <<1, 102>>, <<2, 203>>}

EdgeDrawsFor(e, dt) == IF EnemyRecycles(e, dt) THEN EdgeDraw ELSE {NoDraw}

\* here last records the dt of the last advance and the enemies before it
\* (dt, pre), and the same of the advance before that one (dt1, pre1; dt1
\* is -1 when there was none)
InitEnemy ==
  /\ \E r \in [1..NumEnemies -> EdgeDraw] : game = NewGame(r)
  /\ phase = "enemy"
  /\ last = [op |-> "init", dt |-> -1, pre |-> <<>>, dt1 |-> -1,
             pre1 |-> <<>>]

Advance(dt) ==
  /\ phase = "enemy"
  /\ \E d1 \in EdgeDrawsFor(game.enemies[1], dt),
        d2 \in EdgeDrawsFor(game.enemies[2], dt),
        d3 \in EdgeDrawsFor(game.enemies[3], dt) :
       game' = [game EXCEPT !.enemies = Advanced(game, dt, <<d1, d2, d3>>)]
  /\ phase' = phase
  /\ last' = [op |-> "advance", dt |-> dt, pre |-> game.enemies,
              dt1 |-> last.dt, pre1 |-> last.pre]

NextEnemy == \E dt \in Dts : Advance(dt)

SpecEnemy == InitEnemy /\ [][NextEnemy]_vars

\* C11: an update that takes x + speed * dt beyond the right edge leaves
\* the enemy at x = -101 in one of the three lanes, an update that takes it
\* exactly onto the edge does not, and after every update every enemy has
\* x <= right edge and y in {134, 217, 300}.
C11_Recycling ==
  last.op = "advance" =>
    \A i \in 1..NumEnemies :
      LET e == last.pre[i]
          to == e.x + e.speed * last.dt
      IN  /\ to > CanvasWidth
               => game.enemies[i].x = -101 /\ game.enemies[i].y \in Lanes
          /\ to <= CanvasWidth
               => game.enemies[i] = [x |-> to, y |-> e.y, speed |-> e.speed]
          /\ game.enemies[i].x <= CanvasWidth
          /\ game.enemies[i].y \in Lanes

C11_Witness ==
  /\ last.op = "advance" /\ last.dt > 0
  /\ game.enemies[1].x = CanvasWidth
  /\ game.enemies[2].x = -101
  /\ last.pre[2].x + last.pre[2].speed * last.dt > CanvasWidth

RECURSIVE Press(_, _, _)
Press(g, key, n) ==
  IF n = 0 THEN g ELSE Press(GameHandleInput(g, key, NoDraws), key, n - 1)

\* here last records the game before the first reset (g0), the number of
\* resets (n) and the draws of the last one (r)
InitReset ==
  /\ \E r0 \in Draws3, n \in {0, 5}, key \in Keys, dt \in Dts :
       game = RenderEntities(
                UpdateEntities(
                  GameHandleInput(Press(NewGame(r0), "up", n), key, NoDraws),
                  dt, NoDraws, r0))
  /\ phase = "reset"
  /\ last = [op |-> "init", n |-> 0, g0 |-> game, r |-> NoDraws]

ResetOnce ==
  /\ phase = "reset" /\ last.n = 0
  /\ \E r \in Draws3 :
       /\ game' = GameReset(game, r)
       /\ last' = [op |-> "reset", n |-> 1, g0 |-> game, r |-> r]
  /\ phase' = phase

ResetAgain ==
  /\ phase = "reset" /\ last.n = 1
  /\ \E r \in Draws3 :
       /\ game' = GameReset(game, r)
       /\ last' = [op |-> "reset", n |-> 2, g0 |-> last.g0, r |-> r]
  /\ phase' = phase

NextReset == ResetOnce \/ ResetAgain

SpecReset == InitReset /\ [][NextReset]_vars

\* C13: two resets in a row leave what one reset leaves: the player at
\* (217,466), won false, every enemy at x = -101; with the same draws the
\* second reset gives the very state one reset gives, and the states a
\* second reset can give are the states one reset can give.
C13_ResetIdempotent ==
  last.op = "reset" =>
    /\ SpawnState(game) /\ game.player = PlayerReset
    /\ game = GameReset(last.g0, last.r)
    /\ last.n = 1 =>
         {GameReset(game, r) : r \in Draws3}
           = {GameReset(last.g0, r) : r \in Draws3}

C13_Witness ==
  /\ last.op = "reset" /\ last.n = 2
  /\ last.g0.ended /\ last.g0.player.y = 51
  /\ \E i \in 1..NumEnemies : last.g0.enemies[i].x # -101

\* ------------------------------------------------- frames keep coming
\* the game with the keys that lead to the won state and out of it, and
\* with the frames of the engine's loop: every frame has dt > 0 and the
\* render of a frame follows its update
LiveKeys == {"up", "enter"}

Tick == \E dt \in Dts \ {0} : Update(dt)

NextLive ==
  \/ \E key \in LiveKeys : HandleInput(key)
  \/ Tick
  \/ Render

SpecLive == Init /\ [][NextLive]_vars /\ WF_vars(Render)

\* frames keep coming: again and again an update has just run
FramesKeepComing == []<>(phase = "render")

\* C19: when frames with dt > 0 keep coming, every enemy is at x = -101
\* again and again, in play and in the won state: no enemy stalls.
C19_RecycledForever ==
  FramesKeepComing => \A i \in 1..NumEnemies : []<>(game.enemies[i].x = -101)

C19_Witness ==
  /\ last.op = "update" /\ last.was /\ game.ended /\ ~last.hit
  /\ game.enemies[1].x = -101
  /\ game.enemies[2].x > 0

====
